---- MODULE Spec2Model ----
(***************************************************************************)
(* Simon-says game of src/main.cpp: PatternManager, ButtonReader,          *)
(* LEDDriver, Buzzer, DisplayLCD and the GameController state machine.     *)
(* One step of the model is one call of setup(), one call of loop(), or    *)
(* (in SpecPM) one call of a PatternManager method.  millis(),             *)
(* digitalRead() and random() are inputs of the step that reads them.      *)
(* All the calls of millis() inside one loop() return the same value,      *)
(* except that a delay() in between adds its milliseconds.  tone() does    *)
(* not block.  An unsigned long is 32 bits wide, a uint8_t 8 bits.         *)
(***************************************************************************)
EXTENDS Integers, Sequences, FiniteSets, TLC

\* ---------------------------------------------------------------- constants
WIN_SCORE == 3
NUM_COLORS == 4
MAX_LEN == 50
PATTERN_SIZE == 50
NUM_BUTTONS == 4
NUM_LEDS == 4
DEBOUNCE_MS == 25
onTime == 400
offTime == 200
HOLD_MS == 120
SUCCESS_MS == 50
FAIL_MS == 100
NONE == 255
WinBlinkMs == 400
FailBlinkMs == 200
UINT8 == 256
\* an unsigned long is kept as <<high half, low half>>, 16 bits each
HALF == 65536

\* ------------------------------------------------------------------- bounds
\* loop() is called only during the first MaxPeriods * onTime milliseconds
MaxPeriods == 14
\* the largest maxLen a PatternManager is constructed with in SpecPM
MaxCap == 4
\* the largest colour count a PatternManager is constructed with in SpecPM
MaxColors == 2

\* in SpecClock the player acts only during the first MaxClockPeriods * onTime
\* milliseconds, and a playback begun by then may run MaxPlaybackPeriods *
\* onTime milliseconds longer
MaxClockPeriods == 6
MaxPlaybackPeriods == 9
\* in SpecTwin loop() is called only during the first MaxTwinPeriods * onTime
\* milliseconds
MaxTwinPeriods == 5

\* time that passes between two calls of loop(): none (a call in the same
\* millisecond as the last one) or one playback period
Deltas == {0, onTime}

\* the buttons the player ever presses; the others always read HIGH
Pressable == {0}

Levels == {"HIGH", "LOW"}
Buttons == 0 .. (NUM_BUTTONS - 1)
\* what digitalRead() returns for the four button pins in one sample: the
\* player holds at most one button at a time
Readings ==
  {r \in [Buttons -> Levels] : /\ Cardinality({i \in Buttons : r[i] = "LOW"}) <= 1
                                /\ \A i \in Buttons : r[i] = "LOW" => i \in Pressable}

VARIABLES
  pc,            \* "boot" before setup() has run, "loop" afterwards
  now,           \* the value millis() returns
  elapsed,       \* milliseconds since construction (bounds the run)
  pm_,           \* PatternManager: colors, maxLen, length, pattern
  buttons_,      \* ButtonReader: curr, prev, lastChange, edge
  leds_,         \* LEDDriver: level of each LED pin (TRUE = HIGH)
  buzzer_,       \* Buzzer: frequency of the last tone requested (0 = none)
  display_,      \* DisplayLCD: the screen last drawn
  state_, level_, indexPattern_, indexInput_, lastChange_, ledOn_,
  score_, highScore_, won_,
  maxScore,      \* history: the largest value score_ has held
  streak,        \* history: matching presses made in this input phase
  hits,          \* history: matching presses made in this game
  lastRound,     \* history: length of the last round completed in this game
  pmCall,        \* history: the PatternManager method called last in SpecPM,
                 \* and the length before the call
  shown,         \* history: the sets of LEDs lit, in order, by this playback
  litAt,         \* history: elapsed when playback last lit an LED (-1: none)
  clearedAt,     \* history: elapsed when playback last cleared a lit LED
                 \* (-1: not in this playback)
  raw,           \* history: the pins as last sampled: level, for (the longest
                 \* the pin can have been at that level, capped), since (time
                 \* since that sample, capped), settled (for >= debounce time
                 \* when sampled)
  rounds,        \* history: rounds completed in this game
  twin           \* SpecTwin: a second run of the program, which is given the
                 \* same times and the same readings except during playback
                 \* (other), and whose turn it is (phase); Alone elsewhere

gc == <<state_, level_, indexPattern_, indexInput_, lastChange_, ledOn_,
        score_, highScore_, won_>>
hist == <<maxScore, streak, hits, lastRound, pmCall, shown, litAt, clearedAt,
          raw, rounds>>
vars == <<pc, now, elapsed, pm_, buttons_, leds_, buzzer_, display_, gc, hist,
          twin>>

\* ------------------------------------------------------- integer arithmetic
Zero32 == <<0, 0>>
\* a + n and a - b in unsigned long arithmetic (n an int below 2^16)
Add32(a, n) ==
  <<(a[1] + ((a[2] + n) \div HALF)) % HALF, (a[2] + n) % HALF>>
Sub32(a, b) ==
  LET borrow == IF a[2] < b[2] THEN 1 ELSE 0
  IN <<(a[1] - b[1] - borrow + 2 * HALF) % HALF, (a[2] - b[2] + HALF) % HALF>>
\* a >= n in unsigned long arithmetic (n an int below 2^16)
Ge32(a, n) == a[1] > 0 \/ a[2] >= n
\* (a / n) % 2 in unsigned long arithmetic (n an int below 2^15): with
\* a = hi * 2^16 + lo and hi = q * n + r, a / n = q * 2^16 + (r * 2^16 + lo) / n
DivParity32(a, n) == ((((a[1] % n) * HALF) + a[2]) \div n) % 2
Inc8(a) == (a + 1) % UINT8
Max(a, b) == IF a > b THEN a ELSE b

\* ------------------------------------------------------------ LEDDriver
AllOff == [i \in 0 .. (NUM_LEDS - 1) |-> FALSE]
AllOn == [i \in 0 .. (NUM_LEDS - 1) |-> TRUE]
ledOnAt(l, idx) == IF idx < NUM_LEDS THEN [l EXCEPT ![idx] = TRUE] ELSE l
ledOffAt(l, idx) == IF idx < NUM_LEDS THEN [l EXCEPT ![idx] = FALSE] ELSE l

\* --------------------------------------------------------------- Buzzer
Tones == <<800, 950, 1100, 1250>>
click(bz, idx) == IF idx < 4 THEN Tones[idx + 1] ELSE bz

\* ----------------------------------------------------------- DisplayLCD
Blank == [screen |-> "blank", a |-> 0, b |-> 0]
showLevel(level, high) == [screen |-> "level", a |-> level, b |-> high]
showGameOver(score, high) == [screen |-> "gameover", a |-> score, b |-> high]
showWin(score, high) == [screen |-> "win", a |-> score, b |-> high]
showPressToStart == [screen |-> "start", a |-> 0, b |-> 0]

\* ------------------------------------------------------- PatternManager
NewPatternManager(colors, maxLen) ==
  [colors |-> colors, maxLen |-> maxLen, length |-> 0,
   pattern |-> [i \in 0 .. (PATTERN_SIZE - 1) |-> 0]]

pmBegin(pm) == [pm EXCEPT !.length = 0]
\* unlike line 222: the length is kept
pmReset_Keep(pm) == pm
pmReset(pm) == [pm EXCEPT !.length = 0]

\* unlike line 227: the upper bound is drawn too
RandomDraws_Incl(colors) == 0 .. colors
\* random(0, colors_): the values one draw can return
RandomDraws(colors) == 0 .. (colors - 1)

\* unlike line 226: <= for <
pmAddStep_Over(pm, draw) ==
  IF pm.length <= pm.maxLen
    THEN [pm EXCEPT !.pattern[pm.length] = draw % UINT8, !.length = Inc8(pm.length)]
    ELSE pm
pmAddStep(pm, draw) ==
  IF pm.length < pm.maxLen
    THEN [pm EXCEPT !.pattern[pm.length] = draw % UINT8, !.length = Inc8(pm.length)]
    ELSE pm

\* unlike line 233: always the first step
getStep_First(pm, idx) == pm.pattern[0]
getStep(pm, idx) == pm.pattern[idx]

\* --------------------------------------------------------- ButtonReader
NewButtonReader ==
  [curr |-> [i \in Buttons |-> "HIGH"], prev |-> [i \in Buttons |-> "HIGH"],
   lastChange |-> [i \in Buttons |-> Zero32], edge |-> [i \in Buttons |-> FALSE]]

buttonsBegin(t, r) ==
  [curr |-> r, prev |-> r,
   lastChange |-> [i \in Buttons |-> t], edge |-> [i \in Buttons |-> FALSE]]

\* line 80: the change of level is taken
accepts(b, t, r, i) ==
  r[i] # b.curr[i] /\ Ge32(Sub32(t, b.lastChange[i]), DEBOUNCE_MS)

\* unlike line 79: the edge of an earlier update is kept
buttonsUpdate_Sticky(b, t, r) ==
  [curr |-> [i \in Buttons |-> IF accepts(b, t, r, i) THEN r[i] ELSE b.curr[i]],
   prev |-> [i \in Buttons |-> IF accepts(b, t, r, i) THEN b.curr[i] ELSE b.prev[i]],
   lastChange |-> [i \in Buttons |-> IF accepts(b, t, r, i) THEN t ELSE b.lastChange[i]],
   edge |-> [i \in Buttons |->
               b.edge[i] \/ (accepts(b, t, r, i) /\ b.curr[i] = "HIGH" /\ r[i] = "LOW")]]
buttonsUpdate(b, t, r) ==
  [curr |-> [i \in Buttons |-> IF accepts(b, t, r, i) THEN r[i] ELSE b.curr[i]],
   prev |-> [i \in Buttons |-> IF accepts(b, t, r, i) THEN b.curr[i] ELSE b.prev[i]],
   lastChange |-> [i \in Buttons |-> IF accepts(b, t, r, i) THEN t ELSE b.lastChange[i]],
   edge |-> [i \in Buttons |-> accepts(b, t, r, i) /\ b.curr[i] = "HIGH" /\ r[i] = "LOW"]]

anyRisingEdge(b) ==
  IF \E i \in Buttons : b.edge[i]
    THEN CHOOSE i \in Buttons : b.edge[i] /\ \A j \in Buttons : b.edge[j] => i <= j
    ELSE NONE

\* unlike line 366: <= for ==
matches_Le(btn, step) == btn <= step
\* ------------------------------------------------------- GameController
\* line 366
matches(btn, step) == btn = step
\* unlike line 368: the round ends one press early
roundComplete_Early(idx, len) == idx + 1 >= len
\* unlike line 368: > for >=
roundComplete_Late(idx, len) == idx > len
\* line 368
roundComplete(idx, len) == idx >= len
\* unlike line 370: the score is one short of the length
roundScore_Short(len) == len - 1
\* line 370
roundScore(len) == len
\* unlike lines 371-373: the high score is never raised
newHighScore_Stale(score, high) == high
\* lines 371-373
newHighScore(score, high) == IF score > high THEN score ELSE high
\* unlike line 376: > for >=
isWin_Strict(score) == score > WIN_SCORE
\* line 376
isWin(score) == score >= WIN_SCORE
\* unlike line 384: the level is not raised
nextLevel_Stuck(level) == level
\* unlike line 384: the level is raised twice
nextLevel_Twice(level) == Inc8(Inc8(level))
\* line 384
nextLevel(level) == Inc8(level)
\* unlike line 336: playback ends the game
afterPlayback_Over == "GAME_OVER"
\* unlike line 336: playback ends in Idle
afterPlayback_Idle == "IDLE"
\* unlike line 336: a press taken by the call that ends playback ends the game
afterPlayback_Edge == IF anyRisingEdge(buttons_') # NONE THEN "IDLE" ELSE "WAIT_INPUT"
\* line 336
afterPlayback == "WAIT_INPUT"

\* ----------------------------------------------------------- two runs
\* what the claimed independence of the button input is about
Outcome(st, level, score, high, won, pm, idxPattern) ==
  [state |-> st, level |-> level, score |-> score, highScore |-> high, won |-> won,
   length |-> pm.length, pattern |-> [i \in 0 .. (pm.length - 1) |-> pm.pattern[i]],
   indexPattern |-> idxPattern]
Same ==
  Outcome(state_, level_, score_, highScore_, won_, pm_, indexPattern_)
    = LET o == twin.other
      IN Outcome(o.state_, o.level_, o.score_, o.highScore_, o.won_, o.pm_,
                 o.indexPattern_)

\* A call made d milliseconds after the last one with the pins reading r, as
\* one of the two runs: the first run (phase "A") goes on only while the runs
\* agree, and records its input; the second (phase "B") is given the same d
\* and the same value of random() if both draw.  During ShowPattern its pins
\* may read anything; outside, they read the same r, and the same at the
\* sample before, so that every press that differs is begun and ended during
\* ShowPattern.
sameDraw ==
  LET o == twin.other.pm_
  IN pm_'.length > pm_.length /\ o.length = pm_'.length =>
       pm_'.pattern[pm_.length] = o.pattern[pm_.length]
paired(d, r) ==
  CASE twin.phase = "alone" -> twin' = twin
    [] twin.phase = "A" ->
         /\ Same
         /\ elapsed + d <= MaxTwinPeriods * onTime
         /\ twin' = [twin EXCEPT !.phase = "AB", !.d = d, !.r = r, !.rb = r,
                                 !.was = raw.level,
                                 !.show = (state_ = "SHOW_PATTERN")]
    [] twin.phase = "B" ->
         /\ d = twin.d
         /\ twin.show \/ (r = twin.r /\ raw.level = twin.was)
         /\ sameDraw
         /\ twin' = [twin EXCEPT !.phase = "BA", !.rb = r]
    [] OTHER -> FALSE

\* the global objects as their constructors leave them (lines 431-436), with
\* the PatternManager pm
Constructed(pm) ==
  /\ pc = "boot"
  /\ now = Zero32
  /\ elapsed = 0
  /\ pm_ = pm
  /\ buttons_ = NewButtonReader
  /\ leds_ = AllOff
  /\ buzzer_ = 0
  /\ display_ = Blank
  /\ state_ = "IDLE"
  /\ level_ = 0
  /\ indexPattern_ = 0
  /\ indexInput_ = 0
  /\ lastChange_ = Zero32
  /\ ledOn_ = FALSE
  /\ score_ = 0
  /\ highScore_ = 0
  /\ won_ = FALSE
  /\ maxScore = 0
  /\ streak = 0
  /\ hits = 0
  /\ lastRound = 0
  /\ pmCall = [op |-> "none", before |-> 0]
  /\ shown = << >>
  /\ litAt = -1
  /\ clearedAt = -1
  /\ raw = [level |-> [i \in Buttons |-> "HIGH"],
            for |-> [i \in Buttons |-> DEBOUNCE_MS],
            since |-> 0,
            settled |-> [i \in Buttons |-> TRUE]]
  /\ rounds = 0

\* no second run
Alone == [phase |-> "alone"]

Init == Constructed(NewPatternManager(NUM_COLORS, MAX_LEN)) /\ twin = Alone

\* setup(): leds.begin(), buttons.begin(), buzzer.begin(), game.begin()
setup(r) ==
  /\ pc = "boot"
  /\ pc' = "loop"
  /\ leds_' = AllOff
  /\ buttons_' = buttonsBegin(now, r)
  /\ pm_' = pmBegin(pm_)
  /\ level_' = 0
  /\ score_' = 0
  /\ won_' = FALSE
  /\ display_' = showPressToStart
  /\ maxScore' = Max(maxScore, score_')
  /\ raw' = [raw EXCEPT !.level = r]
  /\ UNCHANGED <<now, elapsed, buzzer_, state_, indexPattern_, indexInput_,
                 lastChange_, ledOn_, highScore_, streak, hits, lastRound, pmCall,
                 shown, litAt, clearedAt, rounds>>
  /\ paired(0, r)

\* handleIdle(), after buttons_.update() at time t
handleIdle(t, b) ==
  IF anyRisingEdge(b) # NONE
    THEN \E draw \in RandomDraws(pm_.colors) :
           /\ leds_' = AllOff
           /\ pm_' = pmAddStep(pmReset(pm_), draw)
           /\ level_' = 1
           /\ score_' = 0
           /\ won_' = FALSE
           /\ indexPattern_' = 0
           /\ ledOn_' = FALSE
           /\ display_' = showLevel(1, highScore_)
           /\ state_' = "SHOW_PATTERN"
           /\ lastChange_' = t
           /\ now' = t
           /\ UNCHANGED <<buzzer_, indexInput_, highScore_>>
    ELSE /\ now' = t
         /\ UNCHANGED <<pm_, leds_, buzzer_, display_, gc>>

\* handleShowPattern() at time t
handleShowPattern(t) ==
  /\ now' = t
  /\ UNCHANGED <<pm_, display_, level_, score_, highScore_, won_>>
  /\ IF indexPattern_ >= pm_.length
       THEN /\ leds_' = AllOff
            /\ indexInput_' = 0
            /\ state_' = afterPlayback
            /\ lastChange_' = t
            /\ UNCHANGED <<buzzer_, indexPattern_, ledOn_>>
       ELSE IF ~ledOn_
         THEN /\ leds_' = ledOnAt(AllOff, getStep(pm_, indexPattern_))
              /\ buzzer_' = click(buzzer_, getStep(pm_, indexPattern_))
              /\ ledOn_' = TRUE
              /\ lastChange_' = t
              /\ UNCHANGED <<state_, indexPattern_, indexInput_>>
         ELSE IF Ge32(Sub32(t, lastChange_), onTime)
           THEN /\ leds_' = AllOff
                /\ ledOn_' = FALSE
                /\ lastChange_' = Add32(t, offTime)
                /\ indexPattern_' = Inc8(indexPattern_)
                /\ UNCHANGED <<buzzer_, state_, indexInput_>>
           ELSE UNCHANGED <<leds_, buzzer_, state_, indexPattern_, indexInput_,
                            lastChange_, ledOn_>>

\* handleWaitInput(), after buttons_.update() at time t
handleWaitInput(t, b) ==
  LET btn == anyRisingEdge(b)
      held == Add32(t, HOLD_MS)
      len == pm_.length
      sc == roundScore(len)
      hi == newHighScore(sc, highScore_)
  IN
  IF btn = NONE
    THEN /\ now' = t
         /\ UNCHANGED <<pm_, leds_, buzzer_, display_, gc>>
    ELSE
      /\ leds_' = ledOffAt(ledOnAt(leds_, btn), btn)
      /\ IF matches(btn, getStep(pm_, indexInput_))
           THEN
             /\ indexInput_' = Inc8(indexInput_)
             /\ IF roundComplete(Inc8(indexInput_), len)
                  THEN
                    /\ score_' = sc
                    /\ highScore_' = hi
                    /\ IF isWin(sc)
                         THEN /\ won_' = TRUE
                              /\ buzzer_' = 2000
                              /\ display_' = showWin(sc, hi)
                              /\ state_' = "GAME_OVER"
                              /\ now' = Add32(held, 2 * SUCCESS_MS)
                              /\ lastChange_' = Add32(held, 2 * SUCCESS_MS)
                              /\ UNCHANGED <<pm_, level_, indexPattern_, ledOn_>>
                         ELSE \E draw \in RandomDraws(pm_.colors) :
                              /\ level_' = nextLevel(level_)
                              /\ pm_' = pmAddStep(pm_, draw)
                              /\ indexPattern_' = 0
                              /\ ledOn_' = FALSE
                              /\ display_' = showLevel(nextLevel(level_), hi)
                              /\ state_' = "SHOW_PATTERN"
                              /\ buzzer_' = click(buzzer_, btn)
                              /\ now' = held
                              /\ lastChange_' = held
                              /\ UNCHANGED won_
                  ELSE /\ buzzer_' = click(buzzer_, btn)
                       /\ now' = held
                       /\ UNCHANGED <<pm_, display_, state_, level_, indexPattern_,
                                      lastChange_, ledOn_, score_, highScore_, won_>>
           ELSE
             /\ won_' = FALSE
             /\ buzzer_' = 200
             /\ display_' = showGameOver(score_, highScore_)
             /\ state_' = "GAME_OVER"
             /\ now' = Add32(held, FAIL_MS)
             /\ lastChange_' = Add32(held, FAIL_MS)
             /\ UNCHANGED <<pm_, level_, indexPattern_, indexInput_, ledOn_,
                            score_, highScore_>>

\* handleGameOver(), after buttons_.update() at time t
handleGameOver(t, b) ==
  LET period == IF won_ THEN WinBlinkMs ELSE FailBlinkMs
      blink == IF DivParity32(t, period) = 0 THEN AllOn ELSE AllOff
  IN
  /\ now' = t
  /\ UNCHANGED <<pm_, buzzer_, level_, indexPattern_, indexInput_, ledOn_,
                 score_, highScore_, won_>>
  /\ IF anyRisingEdge(b) # NONE
       THEN /\ leds_' = AllOff
            /\ display_' = showPressToStart
            /\ state_' = "IDLE"
            /\ lastChange_' = t
       ELSE /\ leds_' = blink
            /\ UNCHANGED <<display_, state_, lastChange_>>

\* ------------------------------------------------------------- history
\* What one call of loop() did, read off the game's rules and not off the
\* controller's own counters: the button the update reported, whether it is the
\* next step of the pattern, whether it is the last one.
pressed == state_ = "WAIT_INPUT" /\ anyRisingEdge(buttons_') # NONE
hit == pressed /\ anyRisingEdge(buttons_') = pm_.pattern[streak]
miss == pressed /\ anyRisingEdge(buttons_') # pm_.pattern[streak]
lastHit == hit /\ streak + 1 = pm_.length
gameStart == state_ = "IDLE" /\ state_' # "IDLE"
\* playback lights an LED, clears the lit LED, begins
lights == state_ = "SHOW_PATTERN" /\ leds_ = AllOff /\ leds_' # AllOff
clears == state_ = "SHOW_PATTERN" /\ leds_ # AllOff /\ leds_' = AllOff
playbackStart == state_ # "SHOW_PATTERN" /\ state_' = "SHOW_PATTERN"
Min(a, b) == IF a < b THEN a ELSE b

\* the pins sampled as r, gap milliseconds after the last sample, and the call
\* of loop() returning rest milliseconds after this sample
sampled(r, gap, rest) ==
  LET for == [i \in Buttons |->
                Min(DEBOUNCE_MS, IF r[i] # raw.level[i] THEN gap ELSE raw.for[i] + gap)]
  IN [level |-> r,
      for |-> [i \in Buttons |-> Min(DEBOUNCE_MS, for[i] + rest)],
      since |-> Min(DEBOUNCE_MS, rest),
      settled |-> [i \in Buttons |-> for[i] >= DEBOUNCE_MS]]

observe(d, r) ==
  /\ maxScore' = Max(maxScore, score_')
  /\ streak' = IF state_ # "WAIT_INPUT" THEN 0 ELSE IF hit THEN streak + 1 ELSE streak
  /\ hits' = IF gameStart THEN 0 ELSE IF hit THEN hits + 1 ELSE hits
  /\ lastRound' = IF gameStart THEN 0 ELSE IF lastHit THEN pm_.length ELSE lastRound
  /\ pmCall' = pmCall
  /\ shown' = IF playbackStart THEN << >>
              ELSE IF lights THEN Append(shown, {i \in DOMAIN leds_ : leds_'[i]})
              ELSE shown
  /\ litAt' = IF state_' # "SHOW_PATTERN" \/ playbackStart THEN -1
              ELSE IF lights THEN elapsed' ELSE litAt
  /\ clearedAt' = IF state_' # "SHOW_PATTERN" \/ playbackStart THEN -1
                  ELSE IF clears THEN elapsed' ELSE clearedAt
  /\ raw' = sampled(r, raw.since + d, elapsed' - (elapsed + d))
  /\ rounds' = IF gameStart THEN 0 ELSE IF lastHit THEN rounds + 1 ELSE rounds

\* unlike line 281: buttons_.update() runs twice in one call of loop()
update_Twice(d, r) ==
  /\ pc = "loop"
  /\ elapsed + d <= MaxPeriods * onTime
  /\ pc' = pc
  /\ buttons_' = buttonsUpdate(buttonsUpdate(buttons_, Add32(now, d), r), Add32(now, d), r)
\* GameController::loop(), called d milliseconds after the last call returned
\* with the pins reading r: buttons_.update(), then the handler of state_
update(d, r) ==
  /\ pc = "loop"
  /\ elapsed + d <= MaxPeriods * onTime
  /\ pc' = pc
  /\ buttons_' = buttonsUpdate(buttons_, Add32(now, d), r)

done(d, r) ==
  /\ elapsed' = elapsed + Sub32(now', now)[2]
  /\ observe(d, r)
  /\ paired(d, r)

loopIdle(d, r) ==
  /\ state_ = "IDLE"
  /\ update(d, r)
  /\ handleIdle(Add32(now, d), buttons_')
  /\ done(d, r)

loopShowPattern(d, r) ==
  /\ state_ = "SHOW_PATTERN"
  /\ update(d, r)
  /\ handleShowPattern(Add32(now, d))
  /\ done(d, r)

loopWaitInput(d, r) ==
  /\ state_ = "WAIT_INPUT"
  /\ update(d, r)
  /\ handleWaitInput(Add32(now, d), buttons_')
  /\ done(d, r)

loopGameOver(d, r) ==
  /\ state_ = "GAME_OVER"
  /\ update(d, r)
  /\ handleGameOver(Add32(now, d), buttons_')
  /\ done(d, r)

Next ==
  \/ \E r \in Readings : setup(r)
  \/ \E d \in Deltas, r \in Readings : loopIdle(d, r)
  \/ \E d \in Deltas, r \in Readings : loopShowPattern(d, r)
  \/ \E d \in Deltas, r \in Readings : loopWaitInput(d, r)
  \/ \E d \in Deltas, r \in Readings : loopGameOver(d, r)

Spec == Init /\ [][Next]_vars

\* ------------------------------------------- the PatternManager on its own
\* A PatternManager constructed with any colour count and capacity within the
\* bounds, and its methods called in any order.
InitPM ==
  \E colors \in 1 .. MaxColors, maxLen \in 0 .. MaxCap :
    Constructed(NewPatternManager(colors, maxLen)) /\ twin = Alone

notPM == <<pc, now, elapsed, buttons_, leds_, buzzer_, display_, gc,
           maxScore, streak, hits, lastRound, shown, litAt, clearedAt, raw, rounds,
           twin>>

callBegin ==
  /\ pm_' = pmBegin(pm_)
  /\ pmCall' = [op |-> "begin", before |-> pm_.length]
  /\ UNCHANGED notPM

callReset ==
  /\ pm_' = pmReset(pm_)
  /\ pmCall' = [op |-> "reset", before |-> pm_.length]
  /\ UNCHANGED notPM

callAddStep ==
  /\ \E draw \in RandomDraws(pm_.colors) : pm_' = pmAddStep(pm_, draw)
  /\ pmCall' = [op |-> "addStep", before |-> pm_.length]
  /\ UNCHANGED notPM

NextPM == callBegin \/ callReset \/ callAddStep

SpecPM == InitPM /\ [][NextPM]_vars

\* ------------------------------------------- the clock, finer and wrapping
\* loop() called one off-duration or one on-duration after the last call
\* returned, and the millisecond clock running over 2^32 during a game.
ClockDeltas == {offTime, onTime}
\* how many milliseconds before the clock runs over the long wait in Idle
\* ends: not a multiple of the tick distances, so that the clock runs over
\* between two calls of loop()
WrapLeads == {2100}

\* The calls of loop() made while the controller waits in Idle with every
\* button released, until shortly before millis() runs over: each clears the
\* edges and changes nothing else.  The time they take is not counted in
\* elapsed.
idleWait ==
  /\ pc = "loop"
  /\ state_ = "IDLE"
  /\ now[1] = 0
  /\ \A i \in Buttons : buttons_.curr[i] = "HIGH" /\ raw.level[i] = "HIGH"
  /\ \E lead \in WrapLeads : now' = <<HALF - 1, HALF - lead>>
  /\ buttons_' = [buttons_ EXCEPT !.edge = [i \in Buttons |-> FALSE]]
  /\ raw' = [raw EXCEPT !.for = [i \in Buttons |-> DEBOUNCE_MS], !.since = 0,
                        !.settled = [i \in Buttons |-> TRUE]]
  /\ UNCHANGED <<pc, elapsed, pm_, leds_, buzzer_, display_, gc, maxScore, streak,
                 hits, lastRound, pmCall, shown, litAt, clearedAt, rounds, twin>>

\* buttons_.update() of a call of loop() made no later than limit
clockUpdate(d, r, limit) ==
  /\ pc = "loop"
  /\ elapsed + d <= limit
  /\ pc' = pc
  /\ buttons_' = buttonsUpdate(buttons_, Add32(now, d), r)

PlayerLimit == MaxClockPeriods * onTime
PlaybackLimit == (MaxClockPeriods + MaxPlaybackPeriods) * onTime

clockIdle(d, r) ==
  /\ state_ = "IDLE"
  /\ clockUpdate(d, r, PlayerLimit)
  /\ handleIdle(Add32(now, d), buttons_')
  /\ done(d, r)

clockShowPattern(d, r) ==
  /\ state_ = "SHOW_PATTERN"
  /\ clockUpdate(d, r, PlaybackLimit)
  /\ handleShowPattern(Add32(now, d))
  /\ done(d, r)

clockWaitInput(d, r) ==
  /\ state_ = "WAIT_INPUT"
  /\ clockUpdate(d, r, PlayerLimit)
  /\ handleWaitInput(Add32(now, d), buttons_')
  /\ done(d, r)

clockGameOver(d, r) ==
  /\ state_ = "GAME_OVER"
  /\ clockUpdate(d, r, PlayerLimit)
  /\ handleGameOver(Add32(now, d), buttons_')
  /\ done(d, r)

NextClock ==
  \/ \E r \in Readings : setup(r)
  \/ idleWait
  \/ \E d \in ClockDeltas, r \in Readings : clockIdle(d, r)
  \/ \E d \in ClockDeltas, r \in Readings : clockShowPattern(d, r)
  \/ \E d \in ClockDeltas, r \in Readings : clockWaitInput(d, r)
  \/ \E d \in ClockDeltas, r \in Readings : clockGameOver(d, r)

\* loop() is called for ever and the clock advances: during playback a call of
\* loop() later than the last one always comes
playbackTick == \E d \in ClockDeltas, r \in Readings : clockShowPattern(d, r)

SpecClock == Init /\ [][NextClock]_vars /\ WF_vars(playbackTick)

\* ------------------------------------------------- two runs side by side
\* The program run twice from the same start, the two runs called in turn
\* with the same clock and the same pin readings, except that the readings of
\* the calls made during ShowPattern may differ.  The variables hold the run
\* whose turn it is, twin.other the run that waits.
Run ==
  [pc |-> pc, now |-> now, elapsed |-> elapsed, pm_ |-> pm_, buttons_ |-> buttons_,
   leds_ |-> leds_, buzzer_ |-> buzzer_, display_ |-> display_, state_ |-> state_,
   level_ |-> level_, indexPattern_ |-> indexPattern_, indexInput_ |-> indexInput_,
   lastChange_ |-> lastChange_, ledOn_ |-> ledOn_, score_ |-> score_,
   highScore_ |-> highScore_, won_ |-> won_, maxScore |-> maxScore,
   streak |-> streak, hits |-> hits, lastRound |-> lastRound, pmCall |-> pmCall,
   shown |-> shown, litAt |-> litAt, clearedAt |-> clearedAt, raw |-> raw,
   rounds |-> rounds]

resume(o) ==
  /\ pc' = o.pc /\ now' = o.now /\ elapsed' = o.elapsed /\ pm_' = o.pm_
  /\ buttons_' = o.buttons_ /\ leds_' = o.leds_ /\ buzzer_' = o.buzzer_
  /\ display_' = o.display_ /\ state_' = o.state_ /\ level_' = o.level_
  /\ indexPattern_' = o.indexPattern_ /\ indexInput_' = o.indexInput_
  /\ lastChange_' = o.lastChange_ /\ ledOn_' = o.ledOn_ /\ score_' = o.score_
  /\ highScore_' = o.highScore_ /\ won_' = o.won_ /\ maxScore' = o.maxScore
  /\ streak' = o.streak /\ hits' = o.hits /\ lastRound' = o.lastRound
  /\ pmCall' = o.pmCall /\ shown' = o.shown /\ litAt' = o.litAt
  /\ clearedAt' = o.clearedAt /\ raw' = o.raw /\ rounds' = o.rounds

\* both runs as the constructors leave them
InitTwin ==
  /\ Constructed(NewPatternManager(NUM_COLORS, MAX_LEN))
  /\ twin = [phase |-> "A", d |-> 0, r |-> raw.level, rb |-> raw.level,
             was |-> raw.level, show |-> FALSE, other |-> Run]

\* the turn passes to the other run
swap ==
  /\ twin.phase \in {"AB", "BA"}
  /\ resume(twin.other)
  /\ twin' = [twin EXCEPT !.phase = IF twin.phase = "AB" THEN "B" ELSE "A",
                          !.other = Run]

NextTwin ==
  \/ swap
  \/ \E r \in Readings : setup(r)
  \/ \E d \in Deltas, r \in Readings : loopIdle(d, r)
  \/ \E d \in Deltas, r \in Readings : loopShowPattern(d, r)
  \/ \E d \in Deltas, r \in Readings : loopWaitInput(d, r)
  \/ \E d \in Deltas, r \in Readings : loopGameOver(d, r)

SpecTwin == InitTwin /\ [][NextTwin]_vars

\* ==================================================================== claims
\* a step of loop() (setup() has run)
inLoop == pc = "loop"
\* the stored steps of the pattern
Stored(pm) == 0 .. (pm.length - 1)
Playing == state_ \in {"SHOW_PATTERN", "WAIT_INPUT"}

\* C1: highScore never decreases from one state to the next, and in every
\* reachable state it equals the largest value score has held since startup.
C1_HighScoreIsMaxScore ==
  /\ [](highScore_ = maxScore)
  /\ [][highScore_' >= highScore_]_vars
\* a second game has started (score back to 0) after a round was completed
C1_Witness == state_ = "SHOW_PATTERN" /\ score_ = 0 /\ highScore_ = 1

\* C2: in WaitInput with pattern length L, the n-th consecutive matching press
\* completes the round (score = L, state ShowPattern or GameOver) iff n = L;
\* for n < L the controller stays in WaitInput with inputIndex = n and score,
\* level and the pattern unchanged; the round is completed by no other step.
C2_MatchStep ==
  inLoop /\ hit =>
    IF streak + 1 = pm_.length
      THEN score_' = pm_.length /\ state_' \in {"SHOW_PATTERN", "GAME_OVER"}
      ELSE /\ state_' = "WAIT_INPUT"
           /\ indexInput_' = streak + 1
           /\ UNCHANGED <<score_, level_, pm_>>
C2_CompletedOnlyByLastMatch ==
  inLoop /\ state_ = "WAIT_INPUT"
         /\ (state_' = "SHOW_PATTERN" \/ (state_' = "GAME_OVER" /\ won_')) => lastHit
C2_RoundCompleteExactlyAtLength ==
  /\ [](state_ = "WAIT_INPUT" => streak < pm_.length /\ indexInput_ = streak)
  /\ [][C2_MatchStep /\ C2_CompletedOnlyByLastMatch]_vars
\* two matching presses made of a pattern of three, and still waiting
C2_Witness == state_ = "WAIT_INPUT" /\ pm_.length = 3 /\ streak = 2 /\ indexInput_ = 2

\* C3: in WaitInput, for every inputIndex k in [0, length), a tick whose
\* rising-edge button differs from pattern[k] ends in GameOver with won = false.
C3_WrongPress ==
  /\ pressed
  /\ indexInput_ < pm_.length
  /\ anyRisingEdge(buttons_') # getStep(pm_, indexInput_)
C3_WrongPressEndsGame ==
  [][inLoop /\ C3_WrongPress => state_' = "GAME_OVER" /\ ~won_']_vars
\* the game was lost by the third press of a round, after two matching ones
C3_Witness == state_ = "GAME_OVER" /\ ~won_ /\ indexInput_ = 2 /\ streak = 2

\* C4: a round completed with score >= WIN_SCORE sets won and goes to GameOver
\* by the win branch in the same tick; in GameOver won holds iff
\* score >= WIN_SCORE, and the fail branch is never taken with such a score.
C4_WinStep ==
  inLoop /\ lastHit /\ score_' >= WIN_SCORE =>
    won_' /\ state_' = "GAME_OVER" /\ display_' = showWin(score_', highScore_')
C4_WinIffThreshold ==
  /\ [](Playing => score_ < WIN_SCORE)
  /\ [](state_ = "GAME_OVER" => (won_ <=> score_ >= WIN_SCORE))
  /\ [](state_ = "GAME_OVER" =>
          display_.screen = IF score_ >= WIN_SCORE THEN "win" ELSE "gameover")
  /\ [][C4_WinStep]_vars
\* the game was won
C4_Witness == state_ = "GAME_OVER" /\ won_ /\ score_ = WIN_SCORE /\ display_.screen = "win"

\* C5: a mismatching press leaves score and highScore unchanged; in GameOver
\* by the fail path score is the length of the last round completed in this
\* game, 0 if none was.
C5_MissStep == inLoop /\ miss => UNCHANGED <<score_, highScore_>>
C5_FailKeepsScore ==
  /\ [](state_ = "GAME_OVER" /\ ~won_ => score_ = lastRound)
  /\ [][C5_MissStep]_vars
\* the game was lost in its third round
C5_Witness == state_ = "GAME_OVER" /\ ~won_ /\ score_ = 2 /\ lastRound = 2

\* C6: every step that enters GameOver starts in WaitInput.
C6_GameOverOnlyFromWaitInput ==
  [][state_' = "GAME_OVER" /\ state_ # "GAME_OVER" => state_ = "WAIT_INPUT"]_vars
\* GameOver has just been entered
C6_Witness == state_ = "GAME_OVER" /\ lastChange_ = now

\* C7: from Idle, a tick with a rising edge ends in ShowPattern with pattern
\* length 1, level 1, score 0, won false, playbackIndex 0 and highScore
\* unchanged; a tick without one leaves the controller's state unchanged.
C7_StartStep ==
  inLoop /\ state_ = "IDLE" /\ anyRisingEdge(buttons_') # NONE =>
    /\ state_' = "SHOW_PATTERN"
    /\ pm_'.length = 1
    /\ level_' = 1
    /\ score_' = 0
    /\ ~won_'
    /\ indexPattern_' = 0
    /\ highScore_' = highScore_
C7_WaitStep ==
  inLoop /\ state_ = "IDLE" /\ anyRisingEdge(buttons_') = NONE =>
    UNCHANGED <<gc, pm_, leds_, buzzer_, display_>>
C7_IdleStartsLevelOne == [][C7_StartStep /\ C7_WaitStep]_vars
\* a game started from an Idle re-entered from GameOver
C7_Witness ==
  /\ state_ = "SHOW_PATTERN" /\ lastChange_ = now /\ level_ = 1
  /\ pm_.length = 1 /\ highScore_ = 1

\* C8: after any sequence of begin(), reset() and addStep(), every stored
\* element is in [0, colors) and length <= maxLen; no call changes an element
\* stored below length.
C8_StoredInRange ==
  /\ pm_.length <= pm_.maxLen
  /\ \A i \in Stored(pm_) : getStep(pm_, i) \in 0 .. (pm_.colors - 1)
C8_PatternInRange ==
  /\ []C8_StoredInRange
  /\ [][\A i \in Stored(pm_) : getStep(pm_', i) = getStep(pm_, i)]_vars
\* a pattern filled to its capacity by addStep(), with a draw other than 0
C8_Witness ==
  /\ pmCall.op = "addStep" /\ pm_.maxLen = MaxCap /\ pm_.length = MaxCap
  /\ getStep(pm_, MaxCap - 1) = 1

\* C9: addStep() at length = maxLen leaves the length and all elements
\* unchanged and does not end the game; at length < maxLen it raises the
\* length by exactly 1.
C9_AddStepCall ==
  pmCall'.op = "addStep" =>
    IF pm_.length = pm_.maxLen
      THEN pm_' = pm_ /\ state_' = state_
      ELSE pm_'.length = pm_.length + 1
C9_AddStepCapped ==
  /\ [](pmCall.op = "addStep" =>
          pm_.length = IF pmCall.before = pm_.maxLen THEN pmCall.before
                                                     ELSE pmCall.before + 1)
  /\ [][C9_AddStepCall]_vars
\* addStep() was called on a pattern already at its capacity
C9_Witness ==
  pmCall.op = "addStep" /\ pmCall.before = pm_.maxLen /\ pm_.maxLen = MaxCap

\* C10: with WIN_SCORE = 3 and 4 colours, for every draw: a start press and
\* matching presses go through rounds (level, length) = (1,1), (2,2), (3,3),
\* each pattern the previous one plus one step, with score 1 then 2, and the
\* sixth matching press ends in GameOver with won and score = 3.
C10_HitsBefore(level) == ((level - 1) * level) \div 2
C10_Rounds ==
  /\ Playing =>
       /\ level_ \in 1 .. 3
       /\ pm_.length = level_
       /\ score_ = level_ - 1
       /\ hits = C10_HitsBefore(level_) + IF state_ = "WAIT_INPUT" THEN indexInput_ ELSE 0
  /\ hits <= 6
  /\ hits = 6 => won_ /\ score_ = 3 /\ state_ \in {"GAME_OVER", "IDLE"}
  /\ state_ = "GAME_OVER" /\ won_ => hits = 6
C10_Steps ==
  /\ hits' = 6 /\ hits = 5 => state_' = "GAME_OVER" /\ won_' /\ score_' = 3
  /\ state_ = "WAIT_INPUT" /\ state_' = "SHOW_PATTERN" =>
       /\ pm_'.length = pm_.length + 1
       /\ \A i \in Stored(pm_) : getStep(pm_', i) = getStep(pm_, i)
C10_ThreeRoundsToWin ==
  /\ [](WIN_SCORE = 3 /\ pm_.colors = 4)
  /\ []C10_Rounds
  /\ [][C10_Steps]_vars
\* the sixth matching press has been made
C10_Witness == hits = 6 /\ state_ = "GAME_OVER" /\ won_ /\ score_ = 3 /\ level_ = 3

\* C11: in every reachable state with state = Idle the pattern is empty,
\* level = 0, score = 0 and won = false.
C11_IdleIsReset ==
  state_ = "IDLE" => pm_.length = 0 /\ level_ = 0 /\ score_ = 0 /\ ~won_

\* C12: in ShowPattern, once the lit LED of a step has been cleared, the next
\* LED is lit and the controller goes on to WaitInput no sooner than the
\* off-duration (200 ms) later.
C12_GapStep ==
  state_ = "SHOW_PATTERN" /\ clearedAt >= 0 /\ (lights \/ state_' = "WAIT_INPUT") =>
    elapsed' - clearedAt >= offTime
C12_OffGapKept == [][C12_GapStep]_vars

\* C13: update() reports a rising edge of a button only if the pin has read
\* the new level for at least the settle time (25 ms); a shorter glitch never
\* produces a rising edge.
C13_EdgeOnlyWhenSettled ==
  \A i \in Buttons : buttons_.edge[i] => raw.level[i] = "LOW" /\ raw.settled[i]

\* C14: risingEdge(i) is a one-tick pulse: it is set only by the update() that
\* changed the debounced level of button i from released to pressed, and the
\* next update() clears it; a handler acts on a press only in the tick whose
\* update() detected it, so a press detected during ShowPattern, or the one
\* that ended a game, is not evaluated by a later tick.
C14_Fresh(i) == buttons_.curr[i] = "HIGH" /\ buttons_'.curr[i] = "LOW"
C14_Reacts ==
  state_ # "SHOW_PATTERN" /\ (state_' # state_ \/ indexInput_' # indexInput_)
C14_PulseStep ==
  /\ \A i \in Buttons : buttons_'.edge[i] => C14_Fresh(i)
  /\ \A i \in Buttons : buttons_.edge[i] => ~buttons_'.edge[i]
  /\ C14_Reacts => \E i \in Buttons : C14_Fresh(i) /\ buttons_'.edge[i]
C14_EdgeIsOneTickPulse == [][inLoop => C14_PulseStep]_vars
\* the press that ended a game is still held one period later, and the
\* controller is still in GameOver
C14_Witness ==
  /\ state_ = "GAME_OVER" /\ lastChange_ # now
  /\ buttons_.curr[0] = "LOW" /\ Sub32(now, buttons_.lastChange[0])[2] > onTime

\* C15: every call of loop() runs buttons_.update() exactly once and before the
\* handler, then exactly one handler, that of the state held when the call
\* began; the state changes at most once in a call (WaitInput -> GameOver ->
\* Idle in one call is impossible).
C15_UpdatedOnce ==
  \E d \in Deltas, r \in Readings : buttons_' = buttonsUpdate(buttons_, Add32(now, d), r)
C15_Edge == anyRisingEdge(buttons_') # NONE
C15_OneHandler ==
  CASE state_ = "IDLE" ->
         IF C15_Edge
           THEN state_' = "SHOW_PATTERN" /\ ~ledOn_' /\ leds_' = AllOff /\ shown' = << >>
           ELSE UNCHANGED <<gc, pm_>>
    [] state_ = "SHOW_PATTERN" ->
         /\ state_' \in {"SHOW_PATTERN", "WAIT_INPUT"}
         /\ UNCHANGED <<pm_, level_, score_, highScore_, won_>>
         /\ state_' = "WAIT_INPUT" => indexInput_' = 0
    [] state_ = "WAIT_INPUT" ->
         IF C15_Edge
           THEN /\ state_' \in {"WAIT_INPUT", "SHOW_PATTERN", "GAME_OVER"}
                /\ state_' = "SHOW_PATTERN" => ~ledOn_' /\ leds_' = AllOff /\ shown' = << >>
                /\ state_' = "GAME_OVER" => display_'.screen \in {"win", "gameover"}
           ELSE UNCHANGED <<gc, pm_>>
    [] state_ = "GAME_OVER" ->
         IF C15_Edge
           THEN state_' = "IDLE" /\ UNCHANGED <<pm_, level_, score_, won_>>
           ELSE state_' = "GAME_OVER"
C15_OneUpdateOneHandler ==
  [][inLoop => C15_UpdatedOnce /\ C15_OneHandler]_vars
\* the press that left GameOver has been reported, and the controller is in
\* Idle with the game not started
C15_Witness ==
  state_ = "IDLE" /\ buttons_.edge[0] /\ display_ = showPressToStart /\ level_ = 1

\* C16 as claimed: two runs that differ only in the button presses made during
\* ShowPattern ticks agree on level, score, highScore, won, the pattern,
\* playbackIndex and the state after every tick.
C16_SameAfterEveryTick == twin.phase = "A" => Same
\* C16, amended: two such runs agree on level, score, highScore, won, the
\* pattern, playbackIndex and the next state after every ShowPattern tick.
C16_SameAfterPlaybackTick == twin.phase = "A" /\ twin.show => Same
\* both runs have made the call that ends playback, one with button 0 read
\* pressed and taken as an edge, the other with it read released
C16_Witness ==
  /\ twin.phase = "A" /\ twin.show /\ twin.r # twin.rb
  /\ state_ = "WAIT_INPUT" /\ twin.other.state_ = "WAIT_INPUT"
  /\ twin.other.buttons_.edge[0] /\ ~buttons_.edge[0]

\* C17: a ShowPattern phase with pattern length L lights exactly the LEDs
\* pattern[0], ..., pattern[L-1] in that order, each once, alone and for at
\* least the on-duration (400 ms); WaitInput is entered only after step L-1
\* has been shown, with all LEDs off and inputIndex = 0.
C17_Steps(n) == [k \in 1 .. n |-> {pm_.pattern[k - 1]}]
C17_Lit == {i \in DOMAIN leds_ : leds_[i]}
C17_Playback ==
  /\ state_ = "SHOW_PATTERN" =>
       /\ Len(shown) <= pm_.length
       /\ shown = C17_Steps(Len(shown))
       /\ C17_Lit = {} \/ (Len(shown) > 0 /\ C17_Lit = shown[Len(shown)])
  /\ state_ = "WAIT_INPUT" => shown = C17_Steps(pm_.length) /\ C17_Lit = {}
C17_ShowStep ==
  /\ clears => litAt >= 0 /\ elapsed' - litAt >= onTime
  /\ state_ = "SHOW_PATTERN" /\ state_' = "WAIT_INPUT" =>
       shown = C17_Steps(pm_.length) /\ leds_' = AllOff /\ indexInput_' = 0
C17_PlaybackShowsPattern == []C17_Playback /\ [][C17_ShowStep]_vars
\* a pattern of three steps, not all the same LED, has been played
C17_Witness ==
  /\ state_ = "WAIT_INPUT" /\ Len(shown) = 3 /\ indexInput_ = 0
  /\ shown[3] # shown[1]

\* C18: from every reachable ShowPattern state, if loop() keeps being called and
\* the clock keeps advancing, the controller reaches WaitInput, whatever the
\* buttons read and also when the millisecond clock runs over 2^32; in Idle
\* no passing of time without a rising edge changes the state.
C18_IdleWaits ==
  inLoop /\ state_ = "IDLE" /\ anyRisingEdge(buttons_') = NONE =>
    state_' = "IDLE" /\ UNCHANGED <<pm_, level_, display_>>
C18_PlaybackEnds ==
  /\ (state_ = "SHOW_PATTERN") ~> (state_ = "WAIT_INPUT")
  /\ [][C18_IdleWaits]_vars
\* a playback of two steps has ended less than three on-durations after the
\* clock ran over: it takes longer than that, so it began before
C18_Witness ==
  /\ state_ = "WAIT_INPUT" /\ Len(shown) = 2
  /\ now[1] = 0 /\ now[2] # elapsed /\ now[2] < 3 * onTime

\* C19: every getStep(i) the controller calls has i < length(): playback reads
\* a step only with playbackIndex < length, and in every WaitInput state
\* 1 <= length and inputIndex < length.
C19_Bounds ==
  /\ state_ = "WAIT_INPUT" => 1 <= pm_.length /\ indexInput_ < pm_.length
  /\ state_ = "SHOW_PATTERN" /\ ledOn_ => indexPattern_ < pm_.length
C19_ReadStep ==
  /\ lights \/ (state_ = "SHOW_PATTERN" /\ ~ledOn_ /\ ledOn_') =>
       indexPattern_ < pm_.length
  /\ pressed => indexInput_ < pm_.length
C19_GetStepInRange == []C19_Bounds /\ [][C19_ReadStep]_vars
\* the last step of a pattern of three is about to be compared
C19_Witness ==
  state_ = "WAIT_INPUT" /\ indexInput_ = pm_.length - 1 /\ pm_.length = WIN_SCORE

\* C20: in every reachable state with state in {ShowPattern, WaitInput},
\* level = rounds completed in this game + 1 = pattern length,
\* score = pattern length - 1 and pattern length <= WIN_SCORE <= maxLen.
C20_Levels ==
  Playing =>
    /\ level_ = rounds + 1
    /\ level_ = pm_.length
    /\ score_ = pm_.length - 1
    /\ pm_.length <= WIN_SCORE
    /\ WIN_SCORE <= pm_.maxLen
C20_LevelIsRoundsPlusOne == []C20_Levels
\* the third round, two rounds completed
C20_Witness ==
  Playing /\ rounds = 2 /\ level_ = 3 /\ highScore_ = 2 /\ maxScore = 2

====
